---- MODULE Spec2Model ----
(***************************************************************************)
(* Model of Firmware/Mathematics/number_theory.cpp and                     *)
(* Firmware/Mathematics/distributions.cpp.                                 *)
(*                                                                         *)
(* The two classes hold no data members: the state of the program is the   *)
(* activation frame of the member function being executed (its parameters  *)
(* and locals) and the value it hands back.  Straight-line functions are   *)
(* one action; each loop of divisibility_theorem and of pmf is one action  *)
(* per pass of its body.                                                   *)
(*                                                                         *)
(* double values are modelled as exact rationals n/d extended with the     *)
(* IEEE-754 results of dividing by zero (+inf, -inf, nan).  long values    *)
(* are modelled as integers; a pass whose products leave the explored      *)
(* magnitude (LongCap) is not taken.                                       *)
(***************************************************************************)
EXTENDS Integers, Sequences, FiniteSets, TLC

VARIABLES pc, frame, ret

vars == <<pc, frame, ret>>

(***************************************************************************)
(* Bounds of the explored inputs.                                          *)
(***************************************************************************)
MaxGauss == 6
MaxN == 6
MaxA == 17
MaxB == 5
MaxIter == 10
MaxLen == 8
MaxTrials == 4

LongCap == 2^30

Abs(x) == IF x < 0 THEN -x ELSE x

Min(x, y) == IF x < y THEN x ELSE y

RECURSIVE Gcd(_, _)
Gcd(x, y) == IF y = 0 THEN x ELSE Gcd(y, x % y)

(***************************************************************************)
(* Results handed to the caller: a value, or a named failure.              *)
(***************************************************************************)
Ok(v) == [err |-> "none", val |-> v]

Fail(e) == [err |-> e, val |-> 0]

(***************************************************************************)
(* double: rationals in lowest terms with d > 0, plus inf / nan.           *)
(***************************************************************************)
Fin(n, d) ==
    LET g == Gcd(Abs(n), Abs(d))
        s == IF d < 0 THEN -1 ELSE 1
    IN  [k |-> "fin", n |-> s * (n \div g), d |-> s * (d \div g)]

Inf(s) == [k |-> "inf", n |-> s, d |-> 0]

NaN == [k |-> "nan", n |-> 0, d |-> 0]

D(i) == [k |-> "fin", n |-> i, d |-> 1]

Sgn(x) == IF x.n < 0 THEN -1 ELSE 1

\* operator / on double (number_theory.cpp:33)
DDiv(x, y) ==
    IF x.k = "nan" \/ y.k = "nan" THEN NaN
    ELSE IF x.k = "inf"
         THEN IF y.k = "inf" THEN NaN ELSE Inf(Sgn(x) * Sgn(y))
    ELSE IF y.k = "inf" THEN D(0)
    ELSE IF y.n = 0
         THEN IF x.n = 0 THEN NaN ELSE Inf(Sgn(x))
    ELSE Fin(x.n * y.d, x.d * y.n)

\* operator - on double (number_theory.cpp:34)
DSub(x, y) ==
    IF x.k = "nan" \/ y.k = "nan" THEN NaN
    ELSE IF x.k = "inf"
         THEN IF y.k = "inf" /\ y.n = x.n THEN NaN ELSE x
    ELSE IF y.k = "inf" THEN Inf(-y.n)
    ELSE Fin(x.n * y.d - y.n * x.d, x.d * y.d)

(***************************************************************************)
(* int: 32-bit two's complement.  Products are formed on 16-bit halves so  *)
(* that the wrapped value of an overflowing n*(n+1) is computed exactly.   *)
(***************************************************************************)
IntMax == 2147483647

Hi16(x) == x \div 65536

Lo16(x) == x % 65536

\* n + 1 as the 32 bits <<high half, low half>>
IntSucc(n) ==
    IF n = IntMax THEN <<32768, 0>> ELSE <<Hi16(n + 1), Lo16(n + 1)>>

\* 16 bit x 16 bit -> <<high half, low half>> of the 32-bit product
LowProduct(xl, yl) ==
    LET x0 == xl % 256
        x1 == xl \div 256
        y0 == yl % 256
        y1 == yl \div 256
        t0 == x0 * y0
        t1 == x1 * y0 + x0 * y1
        t2 == x1 * y1
        s  == t0 + ((t1 % 256) * 256)
    IN  <<(s \div 65536) + (t1 \div 256) + t2, s % 65536>>

ToSigned(hi, lo) == (IF hi >= 32768 THEN hi - 65536 ELSE hi) * 65536 + lo

\* n*(n+1) reduced modulo 2^32 and read as a signed int, for 0 <= n <= IntMax
WrapMul(n) ==
    LET y  == IntSucc(n)
        lp == LowProduct(Lo16(n), y[2])
        hi == (lp[1] + ((Hi16(n) * y[2]) % 65536) + ((Lo16(n) * y[1]) % 65536)) % 65536
    IN  ToSigned(hi, lp[2])

\* signed overflow in n+1 or in n*(n+1), for 0 <= n <= IntMax
Overflows(n) == n = IntMax \/ (n > 0 /\ n + 1 > IntMax \div n)

\* int / 2 truncates toward zero
TruncDiv2(x) == (x \div 2) + (IF x < 0 /\ x % 2 # 0 THEN 1 ELSE 0)

\* gauss_sum: the set of values a build can return.  Signed overflow is
\* undefined: the wrapped product (the usual code) or a trap (-ftrapv).
gauss_sum(n) ==
    IF Overflows(n)
    THEN {Ok(D(TruncDiv2(WrapMul(n)))), Fail("trap")}
    ELSE {Ok(D(TruncDiv2(n * (n + 1))))}

(***************************************************************************)
(* factorial is called by combination and permutation but defined in none  *)
(* of the source files; it follows its documented contract: n! for n >= 0  *)
(* by iteration, InvalidRange for n < 0.                                   *)
(***************************************************************************)
RECURSIVE FactIter(_)
FactIter(n) == IF n <= 0 THEN 1 ELSE n * FactIter(n - 1)

factorial_norange(n) == Ok(FactIter(n))

factorial(n) == IF n < 0 THEN Fail("InvalidRange") ELSE Ok(FactIter(n))

combination_asym(n, r) ==
    LET n_factorial   == factorial(n)
        n_r_factorial == factorial(n - r)
    IN  IF n_factorial.err # "none" THEN n_factorial
        ELSE IF n_r_factorial.err # "none" THEN n_r_factorial
        ELSE Ok(n_factorial.val \div n_r_factorial.val)

\* a failure of any factorial call leaves combination before ncr is formed
combination(n, r) ==
    LET n_factorial   == factorial(n)
        n_r_factorial == factorial(n - r)
        r_factorial   == factorial(r)
    IN  IF n_factorial.err # "none" THEN n_factorial
        ELSE IF n_r_factorial.err # "none" THEN n_r_factorial
        ELSE IF r_factorial.err # "none" THEN r_factorial
        ELSE Ok(n_factorial.val \div (n_r_factorial.val * r_factorial.val))

permutation(n, r) ==
    LET n_factorial   == factorial(n)
        n_r_factorial == factorial(n - r)
    IN  IF n_factorial.err # "none" THEN n_factorial
        ELSE IF n_r_factorial.err # "none" THEN n_r_factorial
        ELSE Ok(n_factorial.val \div n_r_factorial.val)

(***************************************************************************)
(* pmf and mean take `double set[]`, a pointer: sizeof(set) is the size of *)
(* a pointer, 8 on the LP64 targets where long is 64 bits.                 *)
(***************************************************************************)
SizeofSet == 8

SampleVals == {0, 1}

\* what the loops over l < sizeof(set) read: the caller's array followed,
\* when it is shorter than sizeof(set), by whatever lies behind it
Memory == [1..SizeofSet -> SampleVals]

\* the caller's array: the first len cells of what the callee reads
Prefix(mem, len) == [i \in 1..len |-> mem[i]]

Matches(mem, value) == Cardinality({l \in 1..SizeofSet : mem[l] = value})

MulFits(x, y) == IF x = 0 \/ y = 0 THEN TRUE ELSE Abs(x) <= LongCap \div Abs(y)

\* x = x * x, n times
RECURSIVE SqN(_, _)
SqN(x, n) ==
    IF n = 0 THEN x ELSE LET y == CHOOSE y \in {x * x} : TRUE IN SqN(y, n - 1)

RECURSIVE SqFits(_, _)
SqFits(x, n) ==
    IF n = 0 THEN TRUE
    ELSE IF MulFits(x, x)
         THEN LET y == CHOOSE y \in {x * x} : TRUE IN SqFits(y, n - 1)
         ELSE FALSE

(***************************************************************************)
(* State after construction: neither class has data members, no member     *)
(* function is active.                                                     *)
(***************************************************************************)
NoFrame == [op |-> "none"]

Init ==
    /\ pc = "idle"
    /\ frame = NoFrame
    /\ ret = Ok(0)

GaussInputs == (0..MaxGauss) \cup {46340, 46341, 65535, 65536, IntMax}

\* number_theory::gauss_sum(n)
Call_gauss_sum ==
    /\ pc = "idle"
    /\ \E n \in GaussInputs :
           /\ frame' = [op |-> "gauss_sum", args |-> [n |-> n]]
           /\ ret' \in gauss_sum(n)
    /\ pc' = "returned"

\* number_theory::combination(n, r)
Call_combination ==
    /\ pc = "idle"
    /\ \E n \in -1..MaxN, r \in -1..MaxN :
           /\ frame' = [op |-> "combination", args |-> [n |-> n, r |-> r]]
           /\ ret' = combination(n, r)
    /\ pc' = "returned"

\* number_theory::permutation(n, r)
Call_permutation ==
    /\ pc = "idle"
    /\ \E n \in -1..MaxN, r \in -1..MaxN :
           /\ frame' = [op |-> "permutation", args |-> [n |-> n, r |-> r]]
           /\ ret' = permutation(n, r)
    /\ pc' = "returned"

(***************************************************************************)
(* number_theory::divisibility_theorem(a, b, interations)                  *)
(***************************************************************************)
divisibility_theorem_enter ==
    /\ pc = "idle"
    /\ \E a \in -MaxA..MaxA, b \in -MaxB..MaxB, interations \in 0..MaxIter :
           frame' = [op |-> "divisibility_theorem",
                     args |-> [a |-> a, b |-> b, interations |-> interations],
                     a |-> D(a), b |-> D(b), interations |-> interations,
                     q |-> D(0), r |-> D(0), l |-> 0]
    /\ pc' = "dt_for"
    /\ UNCHANGED ret

\* one pass of the for body: q = a/b; r = a - q; b = q; l++
divisibility_theorem_for ==
    /\ pc = "dt_for"
    /\ frame.l < frame.interations
    /\ LET q == DDiv(frame.a, frame.b)
           r == DSub(frame.a, q)
       IN  frame' = [frame EXCEPT !.q = q, !.r = r, !.b = q, !.l = @ + 1]
    /\ UNCHANGED <<pc, ret>>

\* loop exit: the pair {q, r} is handed back
divisibility_theorem_return ==
    /\ pc = "dt_for"
    /\ ~(frame.l < frame.interations)
    /\ ret' = Ok(<<frame.q, frame.r>>)
    /\ pc' = "returned"
    /\ UNCHANGED frame

(***************************************************************************)
(* binomial_distribution::pmf(set, value_to_search_for, number_of_iteraions)*)
(***************************************************************************)
pmf_enter ==
    /\ pc = "idle"
    /\ \E mem \in Memory, len \in 1..Min(MaxLen, SizeofSet),
          value_to_search_for \in SampleVals,
          number_of_iteraions \in 0..MaxTrials :
           frame' = [op |-> "pmf",
                     args |-> [set |-> Prefix(mem, len),
                               value_to_search_for |-> value_to_search_for,
                               number_of_iteraions |-> number_of_iteraions],
                     mem |-> mem,
                     count |-> 0, ncr |-> 1, p |-> 1, q |-> 0, iteration |-> 0,
                     result |-> [i \in {} |-> 0]]
    /\ pc' = "pmf_do"
    /\ UNCHANGED ret

Store(result, i, v) ==
    [j \in (DOMAIN result) \cup {i} |-> IF j = i THEN v ELSE result[j]]

\* the branch of the do body taken when iteration == 0
PmfFirst(f) ==
    LET q == SqN(1 - f.p, SizeofSet - f.iteration)
    IN  [f EXCEPT !.q = q,
                  !.result = Store(f.result, f.iteration, 1 * f.p * q),
                  !.iteration = @ + 1]

\* the branch of the do body taken when iteration > 0
PmfLater(f) ==
    LET count == f.count + Matches(f.mem, f.args.value_to_search_for)
        p0    == count \div SizeofSet
        p     == SqN(p0, f.iteration)
        q     == SqN(1 - p0, SizeofSet - f.iteration)
        ncr   == combination(f.args.number_of_iteraions, f.iteration).val
    IN  [f EXCEPT !.count = count, !.p = p, !.q = q, !.ncr = ncr,
                  !.result = Store(f.result, f.iteration, ncr * p * q),
                  !.iteration = @ + 1]

\* the products of the pass stay within the explored magnitude
PmfFits(f) ==
    IF f.iteration = 0
    THEN SqFits(1 - f.p, SizeofSet - f.iteration)
    ELSE LET p0 == (f.count + Matches(f.mem, f.args.value_to_search_for))
                       \div SizeofSet
         IN  /\ SqFits(p0, f.iteration)
             /\ SqFits(1 - p0, SizeofSet - f.iteration)
             /\ MulFits(SqN(p0, f.iteration),
                        SqN(1 - p0, SizeofSet - f.iteration))
             /\ MulFits(combination(f.args.number_of_iteraions, f.iteration).val,
                        SqN(p0, f.iteration)
                            * SqN(1 - p0, SizeofSet - f.iteration))

PmfBody(f) == IF f.iteration = 0 THEN PmfFirst(f) ELSE PmfLater(f)

\* one pass of do { ... } while (iteration < number_of_iteraions)
pmf_do ==
    /\ pc = "pmf_do"
    /\ frame.iteration < SizeofSet
    /\ PmfFits(frame)
    /\ frame' = PmfBody(frame)
    /\ pc' = IF frame'.iteration < frame.args.number_of_iteraions
             THEN "pmf_do" ELSE "pmf_return"
    /\ UNCHANGED ret

\* `return result;` hands back the address of a local array: what the caller
\* reads through it is the written entries or what has replaced them
StackGarbage == {0, 7}

DanglingRead(result) ==
    {result} \cup {[i \in DOMAIN result |-> g] : g \in StackGarbage}

pmf_return ==
    /\ pc = "pmf_return"
    /\ \E v \in DanglingRead(frame.result) : ret' = Ok(v)
    /\ pc' = "returned"
    /\ UNCHANGED frame

(***************************************************************************)
(* binomial_distribution::mean(set, value_to_search_for, n)                *)
(***************************************************************************)
Call_mean ==
    /\ pc = "idle"
    /\ \E mem \in Memory, len \in 1..Min(MaxLen, SizeofSet),
          value_to_search_for \in SampleVals, n \in 0..MaxTrials :
           LET count == Matches(mem, value_to_search_for)
               p     == D(count \div SizeofSet)
               mean  == D(0)
           IN  /\ frame' = [op |-> "mean",
                            args |-> [set |-> Prefix(mem, len),
                                      value_to_search_for |-> value_to_search_for,
                                      n |-> n],
                            mem |-> mem, count |-> count, p |-> p,
                            mean |-> mean]
               /\ ret' = Ok(mean)
    /\ pc' = "returned"

Next ==
    \/ Call_gauss_sum
    \/ Call_combination
    \/ Call_permutation
    \/ divisibility_theorem_enter
    \/ divisibility_theorem_for
    \/ divisibility_theorem_return
    \/ pmf_enter
    \/ pmf_do
    \/ pmf_return
    \/ Call_mean

Spec == Init /\ [][Next]_vars

(***************************************************************************)
(* Properties.                                                             *)
(***************************************************************************)
Returned(op) == pc = "returned" /\ frame.op = op

RECURSIVE Pow(_, _)
Pow(x, n) == IF n = 0 THEN 1 ELSE x * Pow(x, n - 1)

RECURSIVE SumTo(_, _)
SumTo(f, k) == IF k < 0 THEN 0 ELSE f[k] + SumTo(f, k - 1)

\* the number of the caller's samples equal to value
CountIn(set, value) == Cardinality({i \in DOMAIN set : set[i] = value})

\* q and r are integers with a = q*b + r and 0 <= r < |b|
IsEuclid(a, b, q, r) ==
    /\ q.k = "fin" /\ q.d = 1
    /\ r.k = "fin" /\ r.d = 1
    /\ a = q.n * b + r.n
    /\ 0 <= r.n /\ r.n < Abs(b)

\* a = q*b + r over the rationals
SatisfiesDivision(a, b, q, r) ==
    /\ q.k = "fin"
    /\ r.k = "fin"
    /\ a * q.d * r.d = q.n * b * r.d + r.n * q.d

\* 2*v = n*(n+1), stated without forming the product n*(n+1)
IsGauss(n, v) ==
    IF n = 0 THEN v = 0
    ELSE v >= 0 /\ (2 * v) % n = 0 /\ ((2 * v) \div n) - 1 = n

\* C1: divisibility_theorem(a, b, K) with b # 0 and a large iteration count K
\* (K = MaxIter, the 10 of the documented example) returns the Euclidean pair:
\* a = q*b + r and 0 <= r < |b|.
C1_EuclideanPair ==
    (Returned("divisibility_theorem") /\ frame.args.b # 0
        /\ frame.args.interations = MaxIter)
    => /\ ret.err = "none"
       /\ IsEuclid(frame.args.a, frame.args.b, ret.val[1], ret.val[2])

\* C2: mean on a non-empty sample returns trial_count * p, where p is the
\* share of the caller's samples equal to the target value.
C2_MeanIsNTimesP ==
    Returned("mean")
    => /\ ret.err = "none"
       /\ ret.val.k = "fin"
       /\ ret.val.n * Len(frame.args.set)
              = ret.val.d * frame.args.n
                    * CountIn(frame.args.set, frame.args.value_to_search_for)

\* C3: pmf sets the entry of every trial index k to
\* C(trial_count, k) * p^k * (1-p)^(trial_count-k), with the one p = m/len
\* estimated from the caller's samples.
C3_PmfEntries ==
    Returned("pmf")
    => LET n   == frame.args.number_of_iteraions
           len == Len(frame.args.set)
           m   == CountIn(frame.args.set, frame.args.value_to_search_for)
       IN  \A k \in 0..(n - 1) :
               LET num == combination(n, k).val * Pow(m, k) * Pow(len - m, n - k)
               IN  /\ k \in DOMAIN frame.result
                   /\ num % Pow(len, n) = 0
                   /\ frame.result[k] = num \div Pow(len, n)

\* C4: every entry of the sequence pmf returns lies in [0, 1] and the
\* entries sum to 1.
C4_PmfIsDistribution ==
    Returned("pmf")
    => /\ ret.err = "none"
       /\ \A k \in DOMAIN ret.val : 0 <= ret.val[k] /\ ret.val[k] <= 1
       /\ SumTo(ret.val, Cardinality(DOMAIN ret.val) - 1) = 1

\* C5: pmf produces exactly trial_count entries, those of the trial indices
\* 0..trial_count-1; for trial_count = 0 it produces none.
C5_PmfEntryCount ==
    Returned("pmf")
    => DOMAIN frame.result = 0..(frame.args.number_of_iteraions - 1)

\* C6: divisibility_theorem with b # 0 and any iteration count either
\* returns a pair with a = q*b + r or fails with NonConvergence.
C6_PairOrNonConvergence ==
    (Returned("divisibility_theorem") /\ frame.args.b # 0)
    => \/ ret.err = "NonConvergence"
       \/ /\ ret.err = "none"
          /\ SatisfiesDivision(frame.args.a, frame.args.b,
                               ret.val[1], ret.val[2])

\* C7: divisibility_theorem with b = 0 fails with DivisionByZero, whatever
\* a and the iteration count.
C7_DivisionByZero ==
    (Returned("divisibility_theorem") /\ frame.args.b = 0)
    => ret.err = "DivisionByZero"

\* C8: for 0 <= r <= n, combination(n, r) = combination(n, n - r).
C8_CombinationSymmetric ==
    (Returned("combination") /\ 0 <= frame.args.r
        /\ frame.args.r <= frame.args.n)
    => /\ ret.err = "none"
       /\ ret = combination(frame.args.n, frame.args.n - frame.args.r)

C8_Witness ==
    /\ Returned("combination")
    /\ 0 < frame.args.r
    /\ 2 * frame.args.r < frame.args.n
    /\ ret.err = "none"
    /\ ret.val > frame.args.n

C10_GaussSum ==
    Returned("gauss_sum")
    => /\ ret.err = "none"
       /\ ret.val.k = "fin" /\ ret.val.d = 1
       /\ IsGauss(frame.args.n, ret.val.n)

====
